---- MODULE Spec2Model ----
\* Foreign-key cross-check engine (AbstractRefKey / ForeignKey) of
\* extended_json_schema_validator/extensions/fk_check.py.
EXTENDS Integers, Sequences, FiniteSets, TLC

\* ------------------------------------------------------------------ bounds
\* most occurrences held in FKWorld at one time
MaxOccs == 2
\* most canonical strings recorded by the primary-key side at one time
MaxPKVals == 2
\* doSecondPass is not called when it would make the shared list longer than this
MaxSharedVals == 2

\* ------------------------------------------------------------ the universe
None == "None"
NotAList == "NotAList"
\* self.schemaURI of the ForeignKey instance
SelfURI == "A"
\* self.currentJSONFile can be any of these
Docs == {"d1", "d2"}
\* JSON values found at the place the keyword applies in the validated documents
JSONValues ==
  { [ref |-> <<"x">>, tags |-> <<"x", "y">>],
    [ref |-> <<"y">>, tags |-> <<"x">>],
    [ref |-> <<>>, tags |-> <<"x">>] }
\* JSON values of the documents that carry the primary keys
PKJSONValues ==
  { [ref |-> <<"x">>, tags |-> <<"x">>],
    [ref |-> <<"y">>, tags |-> <<"x">>] }
\* the documents that carry primary keys
PKDocs == {"d1"}
\* ALLOWED_ATOMIC_VALUE_TYPES: str, int, float, bool
ALLOWED_ATOMIC_VALUE_TYPES == {"x", "y", "d1", "d2"}

\* the foreign_keys arrays of the schemas, by schema object identity
SchemaFKDefs ==
  [ S1 |-> << [schema_id |-> None, members |-> <<"ref">>, refers_to |-> None],
              [schema_id |-> "C", members |-> <<"ref", "tags">>, refers_to |-> None] >>,
    S2 |-> << [schema_id |-> "A", members |-> <<"ref">>, refers_to |-> "K"] >> ]
Schemas == {"S1", "S2"}
\* keyRefs[self.triggerAttribute]: the locations seen at bootstrap (S2 is a
\* dynamically composed schema that bootstrap never sees)
keyList == << [context |-> "S1", path |-> "/S1/foreign_keys"] >>
\* the catalogues (refSchemaCache) bootstrap may be given
Catalogues == { {"A", "C"}, {"A"} }

\* the index_world of the primary-key family: IndexDef objects
PKIds == {"p1", "p2", "p3", "p4"}
IndexDefs ==
  [ p1 |-> [schemaURI |-> "A", name |-> "main", limit_scope |-> FALSE, members |-> <<"ref">>],
    p2 |-> [schemaURI |-> "A", name |-> "K",    limit_scope |-> TRUE,  members |-> <<"ref">>],
    p3 |-> [schemaURI |-> "C", name |-> "K",    limit_scope |-> FALSE, members |-> <<"ref">>],
    p4 |-> [schemaURI |-> "C", name |-> "comp", limit_scope |-> FALSE, members |-> <<"ref", "tags">>],
    u1 |-> [schemaURI |-> "C", name |-> "uniq", limit_scope |-> FALSE, members |-> <<"ref">>] ]
\* the orders in which the primary-key contexts hand over their IndexDefs
Orders == { <<"p1", "p2", "p3", "p4">>, <<"p3", "p4", "p2", "p1">> }

VARIABLES
  FKWorld,          \* self.FKWorld, in dict insertion order
  pkValues,         \* IndexDef.values of every primary key (owned by pk_check)
  PKKeys_vals,      \* the one list object that is the default of PKKeys.vals
  PKKeys_by_name,   \* the one dict object that is the default of PKKeys.by_name
  ret               \* what the last call returned

vars == <<FKWorld, pkValues, PKKeys_vals, PKKeys_by_name, ret>>

\* a call that returns nothing (validate yields no error, cleanup returns None)
NoReturn == [ op |-> "none", arg |-> None, value |-> None ]

\* ------------------------------------------------------- generic helpers
RECURSIVE ConcatAll(_)
ConcatAll(ss) == IF ss = <<>> THEN <<>> ELSE Head(ss) \o ConcatAll(Tail(ss))

RECURSIVE SetToSeq(_)
\* iteration over a Python set: some order that is a function of the set
SetToSeq(S) ==
  IF S = {} THEN <<>>
  ELSE LET x == CHOOSE y \in S : TRUE IN <<x>> \o SetToSeq(S \ {x})

Range(s) == { s[i] : i \in 1..Len(s) }

RECURSIVE Dedupe(_)
\* the distinct elements of s, in the order of their first appearance
Dedupe(s) ==
  IF s = <<>> THEN <<>>
  ELSE LET front == SubSeq(s, 1, Len(s) - 1)
           last == s[Len(s)]
       IN IF last \in Range(front) THEN Dedupe(front) ELSE Append(Dedupe(front), last)

\* ------------------------------------------- Key-Value Extractor (IndexKey)
\* IndexKey.GetKeyValues: one value sequence per member
GetKeyValues(value, members) == [ i \in 1..Len(members) |-> value[members[i]] ]

RECURSIVE Product(_)
\* the cross product of the members' value sequences
Product(t) ==
  IF t = <<>> THEN << <<>> >>
  ELSE LET rest == Product(Tail(t))
       IN ConcatAll([ i \in 1..Len(Head(t)) |->
                      [ j \in 1..Len(rest) |-> <<Head(t)[i]>> \o rest[j] ] ])

\* the canonical string of one combination
Render(combo) == <<"[">> \o combo \o <<"]">>
\* the canonical form of an atomic value is the value itself
AtomString(v) == <<v>>

\* IndexKey.GenKeyStrings: the set of canonical strings of the cross product
GenKeyStrings(keyTuple) ==
  IF Len(keyTuple) = 0 THEN <<>>
  ELSE LET p == Product(keyTuple) IN Dedupe([ i \in 1..Len(p) |-> Render(p[i]) ])

\* ------------------------------------------------------------ FKWorld
\* uriagents.isabsuri(self.schemaURI)
isabsuri(u) == u \in {"A", "C"}
\* uriagents.urijoin(base, ref) for the references used here (all absolute)
urijoin(base, ref) == ref

\* lines 173-179 / 225-231
AbsRefSchemaId(p_FK_decl) ==
  IF p_FK_decl.schema_id = None THEN SelfURI
  ELSE IF isabsuri(SelfURI) THEN urijoin(SelfURI, p_FK_decl.schema_id)
  ELSE p_FK_decl.schema_id

\* fk_defs_gid + "_" + str(fk_loc_i)
FkLocId(gid, fk_loc_i) == <<gid, fk_loc_i>>

HasDef(world, fk_id, fk_loc_id) ==
  \E i \in 1..Len(world) : world[i].fk_id = fk_id /\ world[i].fk_loc_id = fk_loc_id

\* fkDefH[fk_loc_id] = fkDef on the dict of dicts: an existing key keeps its place
PutDef(world, entry) ==
  IF HasDef(world, entry.fk_id, entry.fk_loc_id)
  THEN [ i \in 1..Len(world) |->
         IF world[i].fk_id = entry.fk_id /\ world[i].fk_loc_id = entry.fk_loc_id
         THEN entry ELSE world[i] ]
  ELSE Append(world, entry)

\* FKDef(fkLoc=FKLoc(...), members=..., refers_to=...) stored under fk_id, fk_loc_id
FKDef(fk_id, fk_loc_id, path, p_FK_decl) ==
  [ fk_id |-> fk_id, fk_loc_id |-> fk_loc_id,
    fkLoc |-> [ schemaURI |-> SelfURI, refSchemaURI |-> fk_id, path |-> path, values |-> {} ],
    members |-> p_FK_decl.members, refers_to |-> p_FK_decl.refers_to ]

\* FKVals(where=..., values=...)
FKVals(where, values) == [ values |-> values, where |-> where ]

NumOccs(world) ==
  LET RECURSIVE Sum(_)
      Sum(i) == IF i = 0 THEN 0 ELSE Cardinality(world[i].fkLoc.values) + Sum(i - 1)
  IN Sum(Len(world))

\* ------------------------------------------------------------ bootstrap
\* loc.path + "/" + str(fk_loc_i)
DeclPath(locPath, fk_loc_i) == [ kind |-> "path", base |-> locPath, idx |-> fk_loc_i ]
\* "(unknown {})".format(fk_loc_id)
UnknownPath(fk_loc_id) == [ kind |-> "unknown", base |-> fk_loc_id[1], idx |-> fk_loc_id[2] ]

\* lines 181-189
BootstrapError(abs_ref_schema_id) ==
  [ reason |-> "fk_no_schema", description |-> <<abs_ref_schema_id, SelfURI>> ]

RECURSIVE BootstrapDeclsFatal(_, _, _, _)
\* a bootstrap that gives up on a location at its first missing target schema
BootstrapDeclsFatal(acc, loc, i, refSchemaCache) ==
  LET fk_defs == SchemaFKDefs[loc.context]
  IN IF i > Len(fk_defs) THEN acc
     ELSE LET p_FK_decl == fk_defs[i]
              abs_ref_schema_id == AbsRefSchemaId(p_FK_decl)
              fkDef == FKDef(abs_ref_schema_id, FkLocId(loc.context, i - 1),
                             DeclPath(loc.path, i - 1), p_FK_decl)
          IN IF abs_ref_schema_id \notin refSchemaCache
             THEN [ world |-> acc.world,
                    errors |-> Append(acc.errors, BootstrapError(abs_ref_schema_id)) ]
             ELSE BootstrapDeclsFatal([ world |-> PutDef(acc.world, fkDef), errors |-> acc.errors ],
                                      loc, i + 1, refSchemaCache)

RECURSIVE BootstrapDecls(_, _, _, _)
\* lines 171-205: the declarations of one location, from index i (1-based) on
BootstrapDecls(acc, loc, i, refSchemaCache) ==
  LET fk_defs == SchemaFKDefs[loc.context]
  IN IF i > Len(fk_defs) THEN acc
     ELSE LET p_FK_decl == fk_defs[i]
              abs_ref_schema_id == AbsRefSchemaId(p_FK_decl)
              errs == IF abs_ref_schema_id \notin refSchemaCache
                      THEN Append(acc.errors, BootstrapError(abs_ref_schema_id))
                      ELSE acc.errors
              fkDef == FKDef(abs_ref_schema_id, FkLocId(loc.context, i - 1),
                             DeclPath(loc.path, i - 1), p_FK_decl)
          IN BootstrapDecls([ world |-> PutDef(acc.world, fkDef), errors |-> errs ],
                            loc, i + 1, refSchemaCache)

RECURSIVE BootstrapLocs(_, _, _)
\* lines 166-207
BootstrapLocs(acc, k, refSchemaCache) ==
  IF k > Len(keyList) THEN acc
  ELSE BootstrapLocs(BootstrapDecls(acc, keyList[k], 1, refSchemaCache), k + 1, refSchemaCache)

bootstrap(refSchemaCache) ==
  LET r == BootstrapLocs([ world |-> FKWorld, errors |-> <<>> ], 1, refSchemaCache)
  IN /\ FKWorld' = r.world
     /\ ret' = [ op |-> "bootstrap", arg |-> None, value |-> r.errors ]
     /\ UNCHANGED <<pkValues, PKKeys_vals, PKKeys_by_name>>

\* ------------------------------------------------------------- validate
\* isinstance(fkDef.members, list)
IsList(members) == members # NotAList

\* lines 255-263: the occurrence gathered for one declaration
ObtainedValues(fkDef, value) ==
  IF IsList(fkDef.members) THEN GetKeyValues(value, fkDef.members) ELSE << <<value>> >>

\* a gathering that adds the occurrence to every declaration of the target URI
AddOccurrenceToTarget(world, fk_id, fk_loc_id, where, value) ==
  [ i \in 1..Len(world) |->
    IF world[i].fk_id = fk_id
    THEN [ world[i] EXCEPT !.fkLoc.values =
             @ \cup { FKVals(where, ObtainedValues(world[i], value)) } ]
    ELSE world[i] ]

\* a gathering in which the occurrence takes the place of the gathered ones
AddOccurrenceLast(world, fk_id, fk_loc_id, where, value) ==
  [ i \in 1..Len(world) |->
    IF world[i].fk_id = fk_id /\ world[i].fk_loc_id = fk_loc_id
    THEN [ world[i] EXCEPT !.fkLoc.values = { FKVals(where, ObtainedValues(world[i], value)) } ]
    ELSE world[i] ]

\* fkDef.fkLoc.values.add(...)
AddOccurrence(world, fk_id, fk_loc_id, where, value) ==
  [ i \in 1..Len(world) |->
    IF world[i].fk_id = fk_id /\ world[i].fk_loc_id = fk_loc_id
    THEN [ world[i] EXCEPT !.fkLoc.values =
             @ \cup { FKVals(where, ObtainedValues(world[i], value)) } ]
    ELSE world[i] ]

RECURSIVE ValidateDeclsSynth(_, _, _, _, _)
\* a gathering that synthesizes its declaration at every call
ValidateDeclsSynth(world, gid, i, value, where) ==
  LET fk_defs == SchemaFKDefs[gid]
  IN IF i > Len(fk_defs) THEN world
     ELSE LET p_FK_decl == fk_defs[i]
              fk_id == AbsRefSchemaId(p_FK_decl)
              fk_loc_id == FkLocId(gid, i - 1)
              w1 == PutDef(world, FKDef(fk_id, fk_loc_id, UnknownPath(fk_loc_id), p_FK_decl))
          IN ValidateDeclsSynth(AddOccurrence(w1, fk_id, fk_loc_id, where, value),
                                gid, i + 1, value, where)

RECURSIVE ValidateDecls(_, _, _, _, _)
\* lines 223-263: the declarations of the array, from index i (1-based) on
ValidateDecls(world, gid, i, value, where) ==
  LET fk_defs == SchemaFKDefs[gid]
  IN IF i > Len(fk_defs) THEN world
     ELSE LET p_FK_decl == fk_defs[i]
              fk_id == AbsRefSchemaId(p_FK_decl)
              fk_loc_id == FkLocId(gid, i - 1)
              w1 == IF HasDef(world, fk_id, fk_loc_id) THEN world
                    ELSE Append(world, FKDef(fk_id, fk_loc_id, UnknownPath(fk_loc_id), p_FK_decl))
          IN ValidateDecls(AddOccurrence(w1, fk_id, fk_loc_id, where, value),
                           gid, i + 1, value, where)

\* the validation of documents starts when the schemas are bootstrapped
Bootstrapped(world) ==
  \A k \in 1..Len(keyList) : \E i \in 1..Len(world) : world[i].fk_loc_id[1] = keyList[k].context

\* lines 210-263; it yields no ValidationError
validate(schema, value, currentJSONFile) ==
  LET w == IF Len(SchemaFKDefs[schema]) > 0
           THEN ValidateDecls(FKWorld, schema, 1, value, currentJSONFile)
           ELSE FKWorld
  IN /\ Bootstrapped(FKWorld)
     /\ NumOccs(w) <= MaxOccs
     /\ FKWorld' = w
     /\ ret' = NoReturn
     /\ UNCHANGED <<pkValues, PKKeys_vals, PKKeys_by_name>>

\* --------------------------------------------------------------- forget
\* lines 273-276
ToBeRemoved(fkDef, the_json_file) ==
  { fkVals \in fkDef.fkLoc.values : fkVals.where = the_json_file }

\* forget that clears the occurrence set of every declaration that holds the file
ForgetWorldClear(world, the_json_file) ==
  [ i \in 1..Len(world) |->
    IF Cardinality(ToBeRemoved(world[i], the_json_file)) > 0
    THEN [ world[i] EXCEPT !.fkLoc.values = {} ]
    ELSE world[i] ]

\* forget that stops at the first declaration that holds the file
ForgetWorldFirst(world, the_json_file) ==
  [ i \in 1..Len(world) |->
    IF /\ Cardinality(ToBeRemoved(world[i], the_json_file)) > 0
       /\ \A j \in 1..(i - 1) : Cardinality(ToBeRemoved(world[j], the_json_file)) = 0
    THEN [ world[i] EXCEPT !.fkLoc.values = @ \ ToBeRemoved(world[i], the_json_file) ]
    ELSE world[i] ]

\* lines 271-280: FKWorld after the loops
ForgetWorld(world, the_json_file) ==
  [ i \in 1..Len(world) |->
    IF Cardinality(ToBeRemoved(world[i], the_json_file)) > 0
    THEN [ world[i] EXCEPT !.fkLoc.values = @ \ ToBeRemoved(world[i], the_json_file) ]
    ELSE world[i] ]

\* lines 270, 278-279, 282: the returned flag
ForgetRemoved(world, the_json_file) ==
  \E i \in 1..Len(world) : Cardinality(ToBeRemoved(world[i], the_json_file)) > 0

forget(the_json_file) ==
  /\ FKWorld' = ForgetWorld(FKWorld, the_json_file)
  /\ ret' = [ op |-> "forget", arg |-> the_json_file,
              value |-> ForgetRemoved(FKWorld, the_json_file) ]
  /\ UNCHANGED <<pkValues, PKKeys_vals, PKKeys_by_name>>

\* -------------------------------------------------------------- cleanup
\* cleanup that keeps only the declarations bootstrap registered
CleanupWorldBootstrapped(world) ==
  LET Known(e) == e.fkLoc.path.kind = "path"
      kept == SelectSeq(world, Known)
  IN [ i \in 1..Len(kept) |-> [ kept[i] EXCEPT !.fkLoc.values = {} ] ]

\* lines 487-489
CleanupWorld(world) ==
  [ i \in 1..Len(world) |-> [ world[i] EXCEPT !.fkLoc.values = {} ] ]

cleanup ==
  /\ FKWorld' = CleanupWorld(FKWorld)
  /\ ret' = [ op |-> "cleanup", arg |-> None, value |-> None ]
  /\ UNCHANGED <<pkValues, PKKeys_vals, PKKeys_by_name>>

\* ------------------------------------------- the primary-key side (pk_check)
\* the values of an index of another family, never touched here
OtherValues == { AtomString("x") }
\* pkDef.values
DefValues(values, id) == IF id \in PKIds THEN values[id] ELSE OtherValues

\* a canonicalization that keeps the fast path of atomic values under scope-limiting
TheValuesAtomicFirst(fkValsValues, where, limit_scope) ==
  IF /\ Len(fkValsValues) = 1
     /\ Len(fkValsValues[1]) = 1
     /\ fkValsValues[1][1] \in ALLOWED_ATOMIC_VALUE_TYPES
  THEN << AtomString(fkValsValues[1][1]) >>
  ELSE GenKeyStrings(IF limit_scope THEN << <<where>> >> \o fkValsValues ELSE fkValsValues)

\* the canonical strings of an occurrence: lines 406-424 (and 359-373 with
\* limit_scope FALSE)
TheValues(fkValsValues, where, limit_scope) ==
  LET obtainedValues == IF limit_scope THEN << <<where>> >> \o fkValsValues ELSE fkValsValues
      isAtomicValue == IF limit_scope THEN FALSE
                       ELSE /\ Len(obtainedValues) = 1
                            /\ Len(obtainedValues[1]) = 1
                            /\ obtainedValues[1][1] \in ALLOWED_ATOMIC_VALUE_TYPES
  IN IF isAtomicValue THEN << AtomString(obtainedValues[1][1]) >>
     ELSE GenKeyStrings(obtainedValues)

TotalPKVals(values) ==
  LET RECURSIVE Sum(_)
      Sum(S) == IF S = {} THEN 0
                ELSE LET id == CHOOSE x \in S : TRUE
                     IN Cardinality(values[id]) + Sum(S \ {id})
  IN Sum(PKIds)

\* the primary-key validator records the key of a document in pkDef.values,
\* canonicalized by the same rule
PKRecord(id, value, where) ==
  LET strings == TheValues(GetKeyValues(value, IndexDefs[id].members), where,
                           IndexDefs[id].limit_scope)
      v == [ pkValues EXCEPT ![id] = @ \cup Range(strings) ]
  IN /\ v # pkValues
     /\ TotalPKVals(v) <= MaxPKVals
     /\ pkValues' = v
     /\ ret' = NoReturn
     /\ UNCHANGED <<FKWorld, PKKeys_vals, PKKeys_by_name>>

\* --------------------------------------------------------- doSecondPass
\* self.joinClass.__name__
joinClassName == "PrimaryKey"

\* l_customFeatureValidatorsContext: per family, the contexts and their index_world
CustomFeatureValidatorsContext(order) ==
  << [ className |-> "UniqueKey", pkContexts |-> << <<"u1">> >> ],
     [ className |-> joinClassName,
       pkContexts |-> << SubSeq(order, 1, 2), SubSeq(order, 3, 4) >> ] >>

\* a consolidation that takes the contexts of every family
IsAnyClass(className) == TRUE

\* line 298
IsJoinClass(className) == className = joinClassName

\* lines 296-302: the IndexDefs the consolidation walks, in order
ConsolidatedDefs(ctx) ==
  ConcatAll([ c \in 1..Len(ctx) |->
              IF IsJoinClass(ctx[c].className) THEN ConcatAll(ctx[c].pkContexts) ELSE <<>> ])

\* a consolidation in which every declaration with a value sets the flag of
\* the aggregate of its URI
ConsolidateOneLastFlag(acc, id, values) ==
  LET pkDef == IndexDefs[id]
      uri == pkDef.schemaURI
      had == uri \in DOMAIN acc.hash
      nonEmpty == Cardinality(DefValues(values, id)) > 0
      hash1 == IF nonEmpty
               THEN (uri :> [ schemaURI |-> uri, limit_scope |-> pkDef.limit_scope ]) @@ acc.hash
               ELSE acc.hash
      vals1 == IF nonEmpty THEN Append(acc.vals, id) ELSE acc.vals
      by_name1 == IF (had \/ nonEmpty) /\ pkDef.name \notin DOMAIN acc.by_name
                  THEN acc.by_name @@ (pkDef.name :> id)
                  ELSE acc.by_name
  IN [ hash |-> hash1, vals |-> vals1, by_name |-> by_name1 ]

\* lines 303-325 for one pkDef. acc.hash is pkContextsHash (schemaURI and
\* limit_scope of each PKKeys); vals and by_name of every PKKeys are the two
\* default objects of the class, acc.vals and acc.by_name
ConsolidateOne(acc, id, values) ==
  LET pkDef == IndexDefs[id]
      uri == pkDef.schemaURI
      had == uri \in DOMAIN acc.hash
      nonEmpty == Cardinality(DefValues(values, id)) > 0
      hash1 == IF nonEmpty /\ ~had
               THEN acc.hash @@ (uri :> [ schemaURI |-> uri, limit_scope |-> pkDef.limit_scope ])
               ELSE acc.hash
      vals1 == IF nonEmpty THEN Append(acc.vals, id) ELSE acc.vals
      by_name1 == IF (had \/ nonEmpty) /\ pkDef.name \notin DOMAIN acc.by_name
                  THEN acc.by_name @@ (pkDef.name :> id)
                  ELSE acc.by_name
  IN [ hash |-> hash1, vals |-> vals1, by_name |-> by_name1 ]

RECURSIVE Consolidate(_, _, _)
\* lines 295-325
Consolidate(acc, defs, values) ==
  IF defs = <<>> THEN acc
  ELSE Consolidate(ConsolidateOne(acc, Head(defs), values), Tail(defs), values)

\* lines 376-388
UnmatchableError(theValue0, where, refSchemaURI, refers_to, fkPath) ==
  [ reason |-> "stale_fk",
    description |-> [ text |-> "Unmatchable FK", value |-> theValue0, where |-> where,
                      schema |-> refSchemaURI, key |-> refers_to ],
    file |-> where, path |-> fkPath ]

\* lines 438-451
UnmatchingError(fkString, where, refSchemaURI, refers_to, fkPath) ==
  [ reason |-> "stale_fk",
    description |-> [ text |-> "Unmatching FK", value |-> fkString, where |-> where,
                      schema |-> refSchemaURI, key |-> refers_to ],
    file |-> where, path |-> fkPath ]

\* ForeignKey._danglingErrorReason
DanglingFKErrorReason == "dangling_fk"

\* lines 467-476
DanglingError(where, refSchemaURI, fkPath) ==
  [ reason |-> DanglingFKErrorReason,
    description |-> [ text |-> "No available documents", value |-> <<>>, where |-> where,
                      schema |-> refSchemaURI, key |-> SelfURI ],
    file |-> where, path |-> fkPath ]

\* a search that stops after the first value list
FoundInFirst(fkString, checkValuesList) ==
  Len(checkValuesList) > 0 /\ fkString \in checkValuesList[1]

\* a search that wants the string in exactly one value list
FoundInOne(fkString, checkValuesList) ==
  Cardinality({ i \in 1..Len(checkValuesList) : fkString \in checkValuesList[i] }) = 1

\* lines 430-434
Found(fkString, checkValuesList) ==
  \E i \in 1..Len(checkValuesList) : fkString \in checkValuesList[i]

\* a check that lets one matching combination stand for the whole occurrence
NotFoundUnlessAny(theValues, checkValuesList) ==
  IF \E i \in 1..Len(theValues) : Found(theValues[i], checkValuesList)
  THEN <<>> ELSE theValues

\* lines 429-436: the canonical strings that get an error
NotFound(theValues, checkValuesList) ==
  LET Missing(fkString) == ~Found(fkString, checkValuesList)
  IN SelectSeq(theValues, Missing)

\* lines 353-388: one occurrence of a declaration whose named key is not found
OccUnmatchable(fkDef, fkVals, refSchemaURI) ==
  LET theValues0 == TheValues(fkVals.values, fkVals.where, FALSE)
  IN [ where |-> { fkVals.where }, failed |-> { fkVals.where },
       errors |-> [ i \in 1..Len(theValues0) |->
                    UnmatchableError(theValues0[i], fkVals.where, refSchemaURI,
                                     fkDef.refers_to, fkDef.fkLoc.path) ] ]

\* lines 403-452: one occurrence checked against checkValuesList
OccChecked(fkDef, fkVals, refSchemaURI, checkValuesList, limit_scope) ==
  LET theValues == TheValues(fkVals.values, fkVals.where, limit_scope)
      missing == NotFound(theValues, checkValuesList)
  IN [ where |-> { fkVals.where },
       failed |-> IF Len(missing) > 0 THEN { fkVals.where } ELSE {},
       errors |-> [ i \in 1..Len(missing) |->
                    UnmatchingError(missing[i], fkVals.where, refSchemaURI,
                                    fkDef.refers_to, fkDef.fkLoc.path) ] ]

\* lines 463-476: one occurrence of a declaration whose target has no aggregate
OccDangling(fkDef, fkVals, refSchemaURI) ==
  [ where |-> { fkVals.where }, failed |-> { fkVals.where },
    errors |-> << DanglingError(fkVals.where, refSchemaURI, fkDef.fkLoc.path) >> ]

\* lines 341-476: one occurrence of one declaration under refSchemaURI
OccResult(fkDef, fkVals, refSchemaURI, agg, values) ==
  IF refSchemaURI \in DOMAIN agg.hash
  THEN IF fkDef.refers_to # None
       THEN IF fkDef.refers_to \notin DOMAIN agg.by_name
            THEN OccUnmatchable(fkDef, fkVals, refSchemaURI)
            ELSE LET uDef == agg.by_name[fkDef.refers_to]
                 IN OccChecked(fkDef, fkVals, refSchemaURI,
                               << DefValues(values, uDef) >>, IndexDefs[uDef].limit_scope)
       ELSE OccChecked(fkDef, fkVals, refSchemaURI,
                       [ i \in 1..Len(agg.vals) |-> DefValues(values, agg.vals[i]) ],
                       agg.hash[refSchemaURI].limit_scope)
  ELSE OccDangling(fkDef, fkVals, refSchemaURI)

\* the results of a loop, put together
Merge(rs) ==
  [ where |-> UNION { rs[i].where : i \in 1..Len(rs) },
    failed |-> UNION { rs[i].failed : i \in 1..Len(rs) },
    errors |-> ConcatAll([ i \in 1..Len(rs) |-> rs[i].errors ]) ]

\* the loop over fkLoc.values of one declaration
DeclResult(fkDef, refSchemaURI, agg, values) ==
  LET occs == SetToSeq(fkDef.fkLoc.values)
  IN Merge([ i \in 1..Len(occs) |-> OccResult(fkDef, occs[i], refSchemaURI, agg, values) ])

\* self.FKWorld.items(): the target URIs in insertion order
FKWorldKeys(world) == Dedupe([ i \in 1..Len(world) |-> world[i].fk_id ])

\* fkDefH.items(): the declarations under one target URI, in insertion order
FkDefH(world, refSchemaURI) ==
  LET Under(e) == e.fk_id = refSchemaURI IN SelectSeq(world, Under)

\* lines 330-476
CrossCheck(world, agg, values) ==
  LET uris == FKWorldKeys(world)
  IN Merge([ u \in 1..Len(uris) |->
             LET fkDefH == FkDefH(world, uris[u])
             IN Merge([ d \in 1..Len(fkDefH) |->
                        DeclResult(fkDefH[d], uris[u], agg, values) ]) ])

\* lines 285-482: what the call returns and what it leaves in the shared objects
SecondPass(world, values, vals, by_name, order) ==
  LET agg == Consolidate([ hash |-> <<>>, vals |-> vals, by_name |-> by_name ],
                         ConsolidatedDefs(CustomFeatureValidatorsContext(order)), values)
      r == CrossCheck(world, agg, values)
  IN [ uniqueWhere |-> r.where, uniqueFailedWhere |-> r.failed, errors |-> r.errors,
       vals |-> agg.vals, by_name |-> agg.by_name ]

\* a cross-check that uses up the occurrences it has judged
doSecondPassConsuming(order) ==
  LET r == SecondPass(FKWorld, pkValues, PKKeys_vals, PKKeys_by_name, order)
  IN /\ Len(r.vals) <= MaxSharedVals
     /\ PKKeys_vals' = r.vals
     /\ PKKeys_by_name' = r.by_name
     /\ ret' = [ op |-> "doSecondPass", arg |-> order,
                 value |-> [ uniqueWhere |-> r.uniqueWhere,
                             uniqueFailedWhere |-> r.uniqueFailedWhere,
                             errors |-> r.errors,
                             again |-> ret.op = "doSecondPass" /\ ret.arg = order ] ]
     /\ FKWorld' = CleanupWorld(FKWorld)
     /\ UNCHANGED pkValues

doSecondPass(order) ==
  LET r == SecondPass(FKWorld, pkValues, PKKeys_vals, PKKeys_by_name, order)
  IN /\ Len(r.vals) <= MaxSharedVals
     /\ PKKeys_vals' = r.vals
     /\ PKKeys_by_name' = r.by_name
     /\ ret' = [ op |-> "doSecondPass", arg |-> order,
                 value |-> [ uniqueWhere |-> r.uniqueWhere,
                             uniqueFailedWhere |-> r.uniqueFailedWhere,
                             errors |-> r.errors,
                             again |-> ret.op = "doSecondPass" /\ ret.arg = order ] ]
     /\ UNCHANGED <<FKWorld, pkValues>>

\* ---------------------------------------------------------- the machine
Init ==
  /\ FKWorld = <<>>
  /\ pkValues = [ id \in PKIds |-> {} ]
  /\ PKKeys_vals = <<>>
  /\ PKKeys_by_name = <<>>
  /\ ret = NoReturn

Next ==
  \/ \E refSchemaCache \in Catalogues : bootstrap(refSchemaCache)
  \/ \E schema \in Schemas, value \in JSONValues, where \in Docs :
       validate(schema, value, where)
  \/ \E where \in Docs : forget(where)
  \/ \E order \in Orders : doSecondPass(order)
  \/ cleanup
  \/ \E id \in PKIds, value \in PKJSONValues, where \in PKDocs : PKRecord(id, value, where)

Spec == Init /\ [][Next]_vars

\* ------------------------------------------- the notions the claims use
\* ret holds what doSecondPass returned for the present FKWorld and pkValues
IsResult == ret.op = "doSecondPass"

\* the primary keys whose owning URI is uri
OwnedBy(uri) == { id \in PKIds : IndexDefs[id].schemaURI = uri }

\* some primary key owned by uri has a recorded value
HasAggregate(uri) == \E id \in OwnedBy(uri) : pkValues[id] # {}

\* the flag of the first primary key owned by uri, in the order of the
\* contexts, that has a recorded value
ScopeOfAggregate(uri, order) ==
  LET at == { k \in 1..Len(order) : order[k] \in OwnedBy(uri) /\ pkValues[order[k]] # {} }
      first == CHOOSE k \in at : \A j \in at : k <= j
  IN IndexDefs[order[first]].limit_scope

\* the primary key registered under name in the by-name table of uri: the
\* first one owned by uri and so named that is walked when the aggregate of
\* uri exists; None if there is none
NamedKey(uri, name, order) ==
  LET at == { k \in 1..Len(order) :
                /\ order[k] \in OwnedBy(uri)
                /\ IndexDefs[order[k]].name = name
                /\ \E j \in 1..k : order[j] \in OwnedBy(uri) /\ pkValues[order[j]] # {} }
  IN IF at = {} THEN None ELSE order[CHOOSE k \in at : \A j \in at : k <= j]

\* the occurrences a declaration holds for a document
OccsOf(fkDef, doc) == { o \in fkDef.fkLoc.values : o.where = doc }

\* the document has no occurrence in any declaration
NoOccs(world, doc) == \A i \in 1..Len(world) : OccsOf(world[i], doc) = {}

\* the canonical strings of an occurrence
Canon(o, limit_scope) == Range(TheValues(o.values, o.where, limit_scope))

\* the errors of a list with this reason, file and path
ErrorsAt(errors, reason, file, path) ==
  { i \in 1..Len(errors) :
      errors[i].reason = reason /\ errors[i].file = file /\ errors[i].path = path }

\* a stale_fk error for this canonical string of an occurrence of fkDef
HasStale(errors, fkDef, o, string) ==
  \E i \in ErrorsAt(errors, "stale_fk", o.where, fkDef.fkLoc.path) :
    errors[i].description.value = string

\* the errors of a list whose file is not doc
ErrorsNotOf(errors, doc) ==
  LET Other(e) == e.file # doc IN SelectSeq(errors, Other)

\* ----------------------------------------------------------------- C1
\* C1: two doSecondPass calls in a row with the same contexts return the
\* same uniqueWhere, the same uniqueFailedWhere and the same error list,
\* whatever the first call left in the shared aggregates.
C1_Idempotent ==
  [][ (ret.op = "doSecondPass" /\ ret'.op = "doSecondPass" /\ ret'.arg = ret.arg)
      => /\ ret'.value.uniqueWhere = ret.value.uniqueWhere
         /\ ret'.value.uniqueFailedWhere = ret.value.uniqueFailedWhere
         /\ ret'.value.errors = ret.value.errors ]_vars

\* a second call in a row that met what the first one consolidated, with a
\* document that passes and errors to repeat
C1_Witness ==
  /\ IsResult /\ ret.value.again
  /\ Len(PKKeys_vals) >= 2
  /\ ret.value.errors # <<>>
  /\ ret.value.uniqueWhere # ret.value.uniqueFailedWhere

\* ----------------------------------------------------------------- C2
\* C2: every occurrence whose target URI has no primary key with a recorded
\* value gets exactly one dangling_fk error with its document as file and no
\* stale_fk error, and its document is in uniqueWhere and uniqueFailedWhere.
C2_Dangling ==
  IsResult =>
    \A i \in 1..Len(FKWorld) : \A doc \in Docs :
      LET fkDef == FKWorld[i]
          n == Cardinality(OccsOf(fkDef, doc))
          path == fkDef.fkLoc.path
      IN ~HasAggregate(fkDef.fk_id) =>
           /\ Cardinality(ErrorsAt(ret.value.errors, "dangling_fk", doc, path)) = n
           /\ ErrorsAt(ret.value.errors, "stale_fk", doc, path) = {}
           /\ n > 0 => doc \in ret.value.uniqueWhere /\ doc \in ret.value.uniqueFailedWhere

\* a result with an occurrence whose target has no aggregate, while another
\* target has one
C2_Witness ==
  /\ IsResult
  /\ \E i \in 1..Len(FKWorld) :
       /\ ~HasAggregate(FKWorld[i].fk_id)
       /\ FKWorld[i].fkLoc.values # {}
  /\ \E id \in PKIds : pkValues[id] # {}

\* ----------------------------------------------------------------- C3
\* the occurrence belongs to an unnamed declaration, no scope-limiting applies
\* and each of its canonical strings is recorded for a primary key of the target
C3_Matched(fkDef, o, order) ==
  /\ fkDef.refers_to = None
  /\ HasAggregate(fkDef.fk_id)
  /\ ~ScopeOfAggregate(fkDef.fk_id, order)
  /\ \A string \in Canon(o, FALSE) :
       \E id \in OwnedBy(fkDef.fk_id) : string \in pkValues[id]

\* C3: an occurrence of an unnamed, unscoped foreign key whose canonical
\* strings are all recorded for primary keys of the target URI gets no
\* stale_fk error; its document is in uniqueWhere, and not in
\* uniqueFailedWhere when all its occurrences are of this kind.
C3_MatchNoError ==
  IsResult =>
    /\ \A i \in 1..Len(FKWorld) : \A o \in FKWorld[i].fkLoc.values :
         C3_Matched(FKWorld[i], o, ret.arg) =>
           /\ \A string \in Canon(o, FALSE) :
                ~HasStale(ret.value.errors, FKWorld[i], o, string)
           /\ o.where \in ret.value.uniqueWhere
    /\ \A doc \in Docs :
         (\A i \in 1..Len(FKWorld) : \A o \in OccsOf(FKWorld[i], doc) :
            C3_Matched(FKWorld[i], o, ret.arg))
         => doc \notin ret.value.uniqueFailedWhere

\* the scenario: one document with a matching primitive reference, zero
\* errors, the document checked and not failed
C3_Witness ==
  /\ IsResult
  /\ ret.value.errors = <<>>
  /\ ret.value.uniqueWhere = {"d1"}
  /\ ret.value.uniqueFailedWhere = {}
  /\ \E i \in 1..Len(FKWorld) : \E o \in FKWorld[i].fkLoc.values :
       /\ Len(FKWorld[i].members) = 1
       /\ C3_Matched(FKWorld[i], o, ret.arg)

\* ----------------------------------------------------------------- C4
\* the value lists an occurrence of fkDef is compared with: the list of the
\* named key, or the lists of the primary keys owned by the target URI
ComparisonSet(fkDef, order) ==
  IF fkDef.refers_to # None
  THEN { pkValues[NamedKey(fkDef.fk_id, fkDef.refers_to, order)] }
  ELSE { pkValues[id] : id \in OwnedBy(fkDef.fk_id) }

\* the scope-limiting flag that goes with the comparison set
ComparisonScope(fkDef, order) ==
  IF fkDef.refers_to # None
  THEN IndexDefs[NamedKey(fkDef.fk_id, fkDef.refers_to, order)].limit_scope
  ELSE ScopeOfAggregate(fkDef.fk_id, order)

\* the target has an aggregate and the declaration is unnamed or its key is found
Comparable(fkDef, order) ==
  /\ HasAggregate(fkDef.fk_id)
  /\ fkDef.refers_to # None => NamedKey(fkDef.fk_id, fkDef.refers_to, order) # None

\* the canonical strings of the occurrence that are in no list of the comparison set
Unmatched(fkDef, o, order) ==
  { string \in Canon(o, ComparisonScope(fkDef, order)) :
      \A list \in ComparisonSet(fkDef, order) : string \notin list }

\* C4: for a declaration that is unnamed or whose target key is found, under
\* a target URI with an aggregate, the stale_fk errors of an occurrence are as
\* many as its canonical strings that are in no value list of the comparison
\* set, each with the document as file and the declaration's path, and the
\* document is in uniqueFailedWhere when there is at least one.
C4_StaleCount ==
  IsResult =>
    \A i \in 1..Len(FKWorld) : \A doc \in Docs :
      LET fkDef == FKWorld[i]
          missing == UNION { { <<o, string>> : string \in Unmatched(fkDef, o, ret.arg) } :
                             o \in OccsOf(fkDef, doc) }
      IN Comparable(fkDef, ret.arg) =>
           /\ Cardinality(ErrorsAt(ret.value.errors, "stale_fk", doc, fkDef.fkLoc.path))
                = Cardinality(missing)
           /\ missing # {} => doc \in ret.value.uniqueFailedWhere

\* ----------------------------------------------------------------- C5
\* C5: an unnamed foreign key to URI U is compared only with the value lists
\* of primary keys owned by U: a canonical string recorded only for a primary
\* key owned by another URI gets a stale_fk error.
C5_OwnedListsOnly ==
  IsResult =>
    \A i \in 1..Len(FKWorld) : \A o \in FKWorld[i].fkLoc.values :
      LET fkDef == FKWorld[i]
      IN (fkDef.refers_to = None /\ HasAggregate(fkDef.fk_id)) =>
           \A string \in Canon(o, ScopeOfAggregate(fkDef.fk_id, ret.arg)) :
             ( /\ \A id \in OwnedBy(fkDef.fk_id) : string \notin pkValues[id]
               /\ \E id \in PKIds \ OwnedBy(fkDef.fk_id) : string \in pkValues[id] )
             => HasStale(ret.value.errors, fkDef, o, string)

\* ----------------------------------------------------------------- C6
\* C6: a foreign key that names key K, under a target URI that has an
\* aggregate but no key K in its by-name table, gets a stale_fk error for
\* every canonical string of every occurrence and its documents are in
\* uniqueFailedWhere, whatever other URIs register under the name K. (The
\* wording of the error, "key K not found", is not asked for here: the
\* errors themselves are missing.)
C6_NamedKeyNotFound ==
  IsResult =>
    \A i \in 1..Len(FKWorld) : \A o \in FKWorld[i].fkLoc.values :
      LET fkDef == FKWorld[i]
      IN ( /\ fkDef.refers_to # None
           /\ HasAggregate(fkDef.fk_id)
           /\ NamedKey(fkDef.fk_id, fkDef.refers_to, ret.arg) = None )
         => /\ \A string \in Canon(o, FALSE) : HasStale(ret.value.errors, fkDef, o, string)
            /\ o.where \in ret.value.uniqueFailedWhere

\* ----------------------------------------------------------------- C7
\* an occurrence of a composite declaration with a member of several values
MultiValued(fkDef, o) ==
  /\ Len(fkDef.members) >= 2
  /\ \E m \in 1..Len(o.values) : Len(o.values[m]) > 1
  /\ \A m \in 1..Len(o.values) : Len(o.values[m]) >= 1

\* the number of combinations of the cross product
Combinations(o) ==
  LET RECURSIVE Times(_)
      Times(m) == IF m = 0 THEN 1 ELSE Len(o.values[m]) * Times(m - 1)
  IN Times(Len(o.values))

C8_ForgetExact ==
  [][ ret'.op = "forget" =>
        /\ Len(FKWorld') = Len(FKWorld)
        /\ \A i \in 1..Len(FKWorld) :
             /\ FKWorld'[i].fkLoc.values =
                  { o \in FKWorld[i].fkLoc.values : o.where # ret'.arg }
             /\ [ FKWorld'[i] EXCEPT !.fkLoc.values = {} ] =
                  [ FKWorld[i] EXCEPT !.fkLoc.values = {} ]
        /\ ret'.value = (\E i \in 1..Len(FKWorld) : OccsOf(FKWorld[i], ret'.arg) # {}) ]_vars

\* a forget that removed something and left an occurrence of the other document
C8_Witness ==
  /\ ret.op = "forget" /\ ret.value = TRUE
  /\ NoOccs(FKWorld, ret.arg)
  /\ \E doc \in Docs \ {ret.arg} : ~NoOccs(FKWorld, doc)

\* ----------------------------------------------------------------- C9
\* what doSecondPass would return for these occurrences, in this state
ResultFor(world, order) == SecondPass(world, pkValues, PKKeys_vals, PKKeys_by_name, order)

\* C9: forget(doc) leaves no occurrence of doc, only a validate call for doc
\* brings one back, and a doSecondPass result has no error whose file is a
\* document without occurrences and has it in neither set; the errors and
\* the memberships of the other documents are what they were without the forget.
C9_ForgottenIsGone ==
  /\ [](IsResult =>
          \A doc \in Docs : NoOccs(FKWorld, doc) =>
            /\ \A k \in 1..Len(ret.value.errors) : ret.value.errors[k].file # doc
            /\ doc \notin ret.value.uniqueWhere
            /\ doc \notin ret.value.uniqueFailedWhere)
  /\ [][ /\ ret'.op = "forget" => NoOccs(FKWorld', ret'.arg)
         /\ \A doc \in Docs :
              (NoOccs(FKWorld, doc) /\ ~NoOccs(FKWorld', doc))
              => \E schema \in Schemas, value \in JSONValues : validate(schema, value, doc)
         /\ ret'.op = "forget" =>
              \A order \in Orders :
                LET before == ResultFor(FKWorld, order)
                    after == ResultFor(FKWorld', order)
                IN /\ ErrorsNotOf(after.errors, ret'.arg) = ErrorsNotOf(before.errors, ret'.arg)
                   /\ after.uniqueWhere \ {ret'.arg} = before.uniqueWhere \ {ret'.arg}
                   /\ after.uniqueFailedWhere \ {ret'.arg}
                        = before.uniqueFailedWhere \ {ret'.arg} ]_vars

\* a forget that removed occurrences of a document that had errors, with
\* another document whose errors stay
C9_Witness ==
  /\ ret.op = "forget" /\ ret.value = TRUE
  /\ NoOccs(FKWorld, ret.arg)
  /\ \E order \in Orders :
       /\ ResultFor(FKWorld, order).errors # <<>>
       /\ ResultFor(FKWorld, order).uniqueFailedWhere = Docs \ {ret.arg}

\* ---------------------------------------------------------------- C10
\* C10: cleanup leaves every occurrence set empty and the registry as it was:
\* the same target URIs and site ids in the same order, each declaration with
\* the same path, members and target-key name, lazily synthesized ones too.
C10_CleanupKeepsRegistry ==
  [][ ret'.op = "cleanup" =>
        /\ Len(FKWorld') = Len(FKWorld)
        /\ \A i \in 1..Len(FKWorld) :
             /\ FKWorld'[i].fkLoc.values = {}
             /\ FKWorld'[i].fk_id = FKWorld[i].fk_id
             /\ FKWorld'[i].fk_loc_id = FKWorld[i].fk_loc_id
             /\ FKWorld'[i].fkLoc.path = FKWorld[i].fkLoc.path
             /\ FKWorld'[i].fkLoc.refSchemaURI = FKWorld[i].fkLoc.refSchemaURI
             /\ FKWorld'[i].members = FKWorld[i].members
             /\ FKWorld'[i].refers_to = FKWorld[i].refers_to ]_vars

\* after a cleanup, with a lazily synthesized declaration in the registry
C10_Witness ==
  /\ ret.op = "cleanup"
  /\ \E i \in 1..Len(FKWorld) : FKWorld[i].fkLoc.path.kind = "unknown"
  /\ \E i \in 1..Len(FKWorld) : FKWorld[i].fkLoc.path.kind = "path"
  /\ \A i \in 1..Len(FKWorld) : FKWorld[i].fkLoc.values = {}

\* ---------------------------------------------------------------- C11
\* the registry of a newly constructed engine after bootstrap
FreshWorld == BootstrapLocs([ world |-> <<>>, errors |-> <<>> ], 1, {"A", "C"}).world

\* the registry after one more document is gathered
Gather(world, schema, value, doc) == ValidateDecls(world, schema, 1, value, doc)

\* two results with the same sets and the same error list
SameResult(r1, r2) ==
  /\ r1.uniqueWhere = r2.uniqueWhere
  /\ r1.uniqueFailedWhere = r2.uniqueFailedWhere
  /\ r1.errors = r2.errors

\* C11: after cleanup, gathering a fresh document and running doSecondPass
\* returns what the same gathering and cross-check return on a newly
\* constructed engine bootstrapped with the same schemas, for which no
\* earlier doSecondPass has consolidated any primary-key value or name.
C11_FreshAfterCleanup ==
  (ret.op = "cleanup" /\ Bootstrapped(FKWorld)) =>
    \A schema \in Schemas, value \in JSONValues, doc \in Docs, order \in Orders :
      SameResult(SecondPass(Gather(FKWorld, schema, value, doc),
                            pkValues, PKKeys_vals, PKKeys_by_name, order),
                 SecondPass(Gather(FreshWorld, schema, value, doc),
                            pkValues, <<>>, <<>>, order))

\* ---------------------------------------------------------------- C12
\* the declaration sites bootstrap is given: location and array index (1-based)
BootstrapSites ==
  UNION { { <<k, i>> : i \in 1..Len(SchemaFKDefs[keyList[k].context]) } : k \in 1..Len(keyList) }

\* the foreign-key declaration at a site
SiteDecl(site) == SchemaFKDefs[keyList[site[1]].context][site[2]]

\* the declaration of the site is registered under its resolved target URI
Registered(world, site) ==
  \E j \in 1..Len(world) :
    /\ world[j].fk_id = AbsRefSchemaId(SiteDecl(site))
    /\ world[j].fk_loc_id = FkLocId(keyList[site[1]].context, site[2] - 1)
    /\ world[j].members = SiteDecl(site).members
    /\ world[j].refers_to = SiteDecl(site).refers_to

\* C12: bootstrap returns one fk_no_schema error for each declaration whose
\* resolved target is absent from the catalogue and no other error, and it
\* registers every declaration under its resolved target URI with an empty
\* occurrence set, with or without an error; the declarations stay registered.
C12_BootstrapRegistersAll ==
  /\ []( (\E site \in BootstrapSites : Registered(FKWorld, site))
          => \A site \in BootstrapSites : Registered(FKWorld, site) )
  /\ [][ \A refSchemaCache \in Catalogues : bootstrap(refSchemaCache) =>
           LET absent == { site \in BootstrapSites :
                             AbsRefSchemaId(SiteDecl(site)) \notin refSchemaCache }
           IN /\ Len(ret'.value) = Cardinality(absent)
              /\ \A e \in 1..Len(ret'.value) : ret'.value[e].reason = "fk_no_schema"
              /\ \A site \in absent :
                   \E e \in 1..Len(ret'.value) :
                     ret'.value[e].description[1] = AbsRefSchemaId(SiteDecl(site))
              /\ \A site \in BootstrapSites :
                   \E j \in 1..Len(FKWorld') :
                     /\ FKWorld'[j].fk_id = AbsRefSchemaId(SiteDecl(site))
                     /\ FKWorld'[j].fk_loc_id = FkLocId(keyList[site[1]].context, site[2] - 1)
                     /\ FKWorld'[j].fkLoc.values = {}
                     /\ Registered(FKWorld', site) ]_vars

\* a bootstrap that reported the missing schema C and registered the
\* declaration that targets it
C12_Witness ==
  /\ ret.op = "bootstrap"
  /\ Len(ret.value) = 1
  /\ ret.value[1].description[1] = "C"
  /\ \E j \in 1..Len(FKWorld) : FKWorld[j].fk_id = "C" /\ FKWorld[j].fkLoc.values = {}

OccurrenceOf(fkDef, value, doc) ==
  [ values |-> [ m \in 1..Len(fkDef.members) |-> value[fkDef.members[m]] ], where |-> doc ]

BagOf(errors) ==
  [ e \in Range(errors) |-> Cardinality({ k \in 1..Len(errors) : errors[k] = e }) ]

\* two results with the same sets and the same errors up to their order
SameUpToOrder(r1, r2) ==
  /\ r1.uniqueWhere = r2.uniqueWhere
  /\ r1.uniqueFailedWhere = r2.uniqueFailedWhere
  /\ BagOf(r1.errors) = BagOf(r2.errors)

\* the validate calls: schema, value, document
Calls == SetToSeq(Schemas \X JSONValues \X Docs)

\* the registry after the calls numbered i and then j
GatherBoth(world, i, j) ==
  Gather(Gather(world, Calls[i][1], Calls[i][2], Calls[i][3]),
         Calls[j][1], Calls[j][2], Calls[j][3])

\* C15: at the start of a gathering cycle (after bootstrap or cleanup, also
\* of an engine whose schemas are all composed dynamically), two validate
\* calls made in either order lead to doSecondPass results with the same
\* uniqueWhere, the same uniqueFailedWhere and the same errors up to their
\* order, for every order of the primary-key contexts.
C15_OrderIndependent ==
  ret.op \in {"bootstrap", "cleanup"} =>
    \A i, j \in 1..Len(Calls) :
      i < j =>
        LET ab == GatherBoth(FKWorld, i, j)
            ba == GatherBoth(FKWorld, j, i)
        IN ab = ba
           \/ \A order \in Orders : SameUpToOrder(ResultFor(ab, order), ResultFor(ba, order))

\* at the start of a cycle, two calls whose two orders register the
\* declarations in different orders and give the same errors in different orders
C15_Witness ==
  /\ ret.op = "cleanup"
  /\ \E id \in PKIds : pkValues[id] # {}
  /\ \E i, j \in 1..Len(Calls) : \E order \in Orders :
       LET ab == GatherBoth(FKWorld, i, j)
           ba == GatherBoth(FKWorld, j, i)
       IN /\ ab # ba
          /\ ResultFor(ab, order).errors # ResultFor(ba, order).errors
          /\ ResultFor(ab, order).errors # <<>>
          /\ SameUpToOrder(ResultFor(ab, order), ResultFor(ba, order))

\* ---------------------------------------------------------------- C16
\* the declaration's target-key name has an entry in the by-name table
KeyFound(fkDef) == fkDef.refers_to # None /\ fkDef.refers_to \in DOMAIN PKKeys_by_name

\* scope-limiting is active for the comparison of the declaration: the flag
\* of the key found under its name, or the flag of the aggregate of its
\* target URI if it names none
ScopeActive(fkDef, order) ==
  /\ HasAggregate(fkDef.fk_id)
  /\ IF fkDef.refers_to # None
     THEN KeyFound(fkDef) /\ IndexDefs[PKKeys_by_name[fkDef.refers_to]].limit_scope
     ELSE ScopeOfAggregate(fkDef.fk_id, order)

\* the composite rendering of the occurrence with its document as leading member
ScopedStrings(o) == Range(GenKeyStrings(<< <<o.where>> >> \o o.values))

\* C16: when scope-limiting is active, every canonical string of an
\* occurrence is the composite rendering with the occurrence's document as
\* leading member, also for a single primitive value: a string that no
\* primary key has recorded (the value recorded under another document only)
\* gets a stale_fk error that carries it, and for a named key the string gets
\* an error exactly when the list of that key does not hold it.
C16_ScopedMatch ==
  IsResult =>
    \A i \in 1..Len(FKWorld) : \A o \in FKWorld[i].fkLoc.values :
      LET fkDef == FKWorld[i]
      IN ScopeActive(fkDef, ret.arg) =>
           /\ \A k \in ErrorsAt(ret.value.errors, "stale_fk", o.where, fkDef.fkLoc.path) :
                \E d \in Docs : ret.value.errors[k].description.value[2] = d
           /\ \A string \in ScopedStrings(o) :
                /\ string[2] = o.where
                /\ (\A id \in PKIds : string \notin pkValues[id])
                   => /\ HasStale(ret.value.errors, fkDef, o, string)
                      /\ o.where \in ret.value.uniqueFailedWhere
                /\ KeyFound(fkDef) =>
                     (HasStale(ret.value.errors, fkDef, o, string)
                      <=> string \notin pkValues[PKKeys_by_name[fkDef.refers_to]])

\* a single primitive value gathered from d2, recorded for the scope-limited
\* key under d1 only, got its stale_fk error
C16_Witness ==
  /\ IsResult
  /\ \E i \in 1..Len(FKWorld) : \E o \in FKWorld[i].fkLoc.values : \E v \in {"x", "y"} :
       /\ ScopeActive(FKWorld[i], ret.arg)
       /\ KeyFound(FKWorld[i])
       /\ o.where = "d2" /\ o.values = << <<v>> >>
       /\ Render(<<"d1", v>>) \in pkValues[PKKeys_by_name[FKWorld[i].refers_to]]
       /\ HasStale(ret.value.errors, FKWorld[i], o, Render(<<"d2", v>>))

\* ---------------------------------------------------------------- C17
\* the flag the comparison of the declaration goes by: that of the aggregate
\* of the target URI for an unnamed declaration, that of the key found under
\* the name for a named one
FlagInUse(fkDef, order) ==
  IF fkDef.refers_to = None
  THEN ScopeOfAggregate(fkDef.fk_id, order)
  ELSE IndexDefs[PKKeys_by_name[fkDef.refers_to]].limit_scope

\* C17: the aggregate of a URI has the flag of the first primary key of that
\* URI, in the order of consolidation, that has a recorded value, whatever
\* the flags of the later ones; the occurrences of an unnamed foreign key are
\* canonicalized by that flag and those of a named foreign key whose key is
\* found by the flag of the found declaration: the stale_fk errors carry
\* strings of that canonical form only, and every such string that no
\* primary key has recorded gets its error.
C17_FlagInUse ==
  IsResult =>
    \A i \in 1..Len(FKWorld) : \A doc \in Docs :
      LET fkDef == FKWorld[i]
      IN (HasAggregate(fkDef.fk_id) /\ (fkDef.refers_to = None \/ KeyFound(fkDef))) =>
           /\ \A k \in ErrorsAt(ret.value.errors, "stale_fk", doc, fkDef.fkLoc.path) :
                \E o \in OccsOf(fkDef, doc) :
                  ret.value.errors[k].description.value \in Canon(o, FlagInUse(fkDef, ret.arg))
           /\ \A o \in OccsOf(fkDef, doc) : \A string \in Canon(o, FlagInUse(fkDef, ret.arg)) :
                (\A id \in PKIds : string \notin pkValues[id])
                => HasStale(ret.value.errors, fkDef, o, string)

\* a URI with two primary keys of different flags, both with recorded
\* values, and an error of an unnamed foreign key to it
C17_Witness ==
  /\ IsResult
  /\ \E id1, id2 \in PKIds :
       /\ IndexDefs[id1].schemaURI = IndexDefs[id2].schemaURI
       /\ IndexDefs[id1].limit_scope /\ ~IndexDefs[id2].limit_scope
       /\ pkValues[id1] # {} /\ pkValues[id2] # {}
       /\ \E i \in 1..Len(FKWorld) : \E o \in FKWorld[i].fkLoc.values :
            /\ FKWorld[i].refers_to = None
            /\ FKWorld[i].fk_id = IndexDefs[id1].schemaURI
            /\ ScopeOfAggregate(FKWorld[i].fk_id, ret.arg)
            /\ ret.arg[3] = id1 /\ ret.arg[4] = id2
            /\ \E string \in Canon(o, TRUE) : HasStale(ret.value.errors, FKWorld[i], o, string)

\* ---------------------------------------------------------------- C18
\* the primary keys of the URI with this name all have no recorded value, and
\* none of them is walked when the aggregate of the URI exists
EmptyAndNotEntered(uri, name, order) ==
  /\ \E id \in OwnedBy(uri) : IndexDefs[id].name = name
  /\ \A id \in OwnedBy(uri) : IndexDefs[id].name = name => pkValues[id] = {}
  /\ NamedKey(uri, name, order) = None

\* C18: a foreign key that names a primary key of its target URI which has
\* no recorded value and was consolidated before the URI had an aggregate
\* gets, for every canonical string of every occurrence, a stale_fk error
\* "key not found", and its documents are in uniqueFailedWhere; or one
\* dangling error per occurrence when the URI has no aggregate at all.
C18_EmptyNamedKey ==
  IsResult =>
    \A i \in 1..Len(FKWorld) : \A o \in FKWorld[i].fkLoc.values :
      LET fkDef == FKWorld[i]
      IN (fkDef.refers_to # None /\ EmptyAndNotEntered(fkDef.fk_id, fkDef.refers_to, ret.arg)) =>
           IF HasAggregate(fkDef.fk_id)
           THEN /\ o.where \in ret.value.uniqueFailedWhere
                /\ \A string \in Canon(o, FALSE) :
                     \E k \in ErrorsAt(ret.value.errors, "stale_fk", o.where, fkDef.fkLoc.path) :
                       /\ ret.value.errors[k].description.text = "Unmatchable FK"
                       /\ ret.value.errors[k].description.value = string
                       /\ ret.value.errors[k].description.key = fkDef.refers_to
           ELSE ErrorsAt(ret.value.errors, "dangling_fk", o.where, fkDef.fkLoc.path) # {}

\* ---------------------------------------------------------------- C19
\* the places in the registry of the declaration site (schema, array index)
SiteAt(world, schema, i) ==
  { j \in 1..Len(world) :
      /\ world[j].fk_id = AbsRefSchemaId(SchemaFKDefs[schema][i])
      /\ world[j].fk_loc_id = FkLocId(schema, i - 1) }

\* C19: validate yields no error. For every declaration of the array, if its
\* site id is registered under the resolved target URI the occurrence is
\* added to that declaration and none is created; if not, exactly one
\* declaration is synthesized under the resolved target URI with the
\* declaration's members and target-key name and the occurrence is added to
\* it. Every declaration that was registered stays, in its place, with its
\* path, members and target-key name and with the occurrences it had.
C19_GatherOrSynthesize ==
  [][ (ret' = NoReturn /\ pkValues' = pkValues) =>
        \A schema \in Schemas, value \in JSONValues, doc \in Docs :
          validate(schema, value, doc) =>
            /\ Len(FKWorld') >= Len(FKWorld)
            /\ \A j \in 1..Len(FKWorld) :
                 /\ [ FKWorld'[j] EXCEPT !.fkLoc.values = {} ]
                      = [ FKWorld[j] EXCEPT !.fkLoc.values = {} ]
                 /\ FKWorld[j].fkLoc.values \subseteq FKWorld'[j].fkLoc.values
            /\ Len(FKWorld') - Len(FKWorld)
                 = Cardinality({ i \in 1..Len(SchemaFKDefs[schema]) :
                                   SiteAt(FKWorld, schema, i) = {} })
            /\ \A i \in 1..Len(SchemaFKDefs[schema]) :
                 /\ Cardinality(SiteAt(FKWorld', schema, i)) = 1
                 /\ \A j \in SiteAt(FKWorld', schema, i) :
                      /\ FKWorld'[j].members = SchemaFKDefs[schema][i].members
                      /\ FKWorld'[j].refers_to = SchemaFKDefs[schema][i].refers_to
                      /\ OccurrenceOf(FKWorld'[j], value, doc) \in FKWorld'[j].fkLoc.values
                      /\ j > Len(FKWorld) =>
                           /\ FKWorld'[j].fkLoc.path.kind = "unknown"
                           /\ FKWorld'[j].fkLoc.values = { OccurrenceOf(FKWorld'[j], value, doc) }
      ]_vars

\* a synthesized declaration holds an occurrence, next to the bootstrapped
\* declarations, which are as bootstrap registered them
C19_Witness ==
  /\ ret = NoReturn
  /\ \E j \in 1..Len(FKWorld) :
       FKWorld[j].fkLoc.path.kind = "unknown" /\ FKWorld[j].fkLoc.values # {}
  /\ \A site \in BootstrapSites :
       \E j \in 1..Len(FKWorld) :
         /\ FKWorld[j].fk_loc_id = FkLocId(keyList[site[1]].context, site[2] - 1)
         /\ FKWorld[j].fkLoc.path = DeclPath(keyList[site[1]].path, site[2] - 1)

\* ---------------------------------------------------------------- C20
\* C20: doSecondPass leaves the registry as it was: the same target URIs,
\* the same declarations under each and the same occurrence set in each; and
\* it leaves the primary keys' recorded values as they were.
C20_SecondPassFrame ==
  [][ ret'.op = "doSecondPass" =>
        /\ FKWorldKeys(FKWorld') = FKWorldKeys(FKWorld)
        /\ \A u \in 1..Len(FKWorldKeys(FKWorld)) :
             FkDefH(FKWorld', FKWorldKeys(FKWorld)[u]) = FkDefH(FKWorld, FKWorldKeys(FKWorld)[u])
        /\ \A id \in PKIds : pkValues'[id] = pkValues[id] ]_vars

\* a call that judged occurrences against recorded values and returned errors
C20_Witness ==
  /\ IsResult
  /\ ret.value.errors # <<>>
  /\ ret.value.uniqueWhere # ret.value.uniqueFailedWhere
  /\ \E id \in PKIds : pkValues[id] # {}
  /\ Len(PKKeys_vals) > 0

====
